---- MODULE Spec2Model ----
(***************************************************************************)
(* Model of packages/presets/near-operation-file/src/fragment-resolver.ts: *)
(* buildFragmentRegistry (with getAllFragmentSubTypes and                  *)
(* isUsingDocVarPlugin) and the resolveFragments closure returned by       *)
(* buildFragmentResolver.                                                  *)
(***************************************************************************)
EXTENDS Integers, Sequences, FiniteSets, TLC

VARIABLES documents, pc, di, fi, registry, duplicateFragmentNames, error,
          processed, calls, lastCall, lastResult,
          snArgs, snResult

vars == <<documents, pc, di, fi, registry, duplicateFragmentNames, error,
          processed, calls, lastCall, lastResult, snArgs, snResult>>

----------------------------------------------------------------------------
(* Bounds *)

MaxDocs == 2
MaxDefs == 3
MaxLevel == 1
MaxCalls == 2
MaxPlugins == 2
MaxTypes == 3

----------------------------------------------------------------------------
(* Generic helpers *)

(* undefined, and the string it converts to as a property key *)
Null == "undefined"

Range(s) == {s[i] : i \in 1..Len(s)}

SeqsUpTo(S, n) == UNION {[1..k -> S] : k \in 0..n}

Distinct(s) == \A i, j \in 1..Len(s) : i # j => s[i] # s[j]

(* Array.prototype.filter *)
RECURSIVE Filter(_, _)
Filter(s, kind) ==
  IF s = <<>> THEN <<>>
  ELSE (IF Head(s).kind = kind THEN <<Head(s)>> ELSE <<>>) \o Filter(Tail(s), kind)

(* Set.prototype.add on an insertion-ordered Set *)
SetAdd(set, x) == IF x \in Range(set) THEN set ELSE Append(set, x)

(* new Set(iterable), and forEach(f => set.add(f)) *)
RECURSIVE SetAddAll(_, _)
SetAddAll(set, xs) ==
  IF xs = <<>> THEN set ELSE SetAddAll(SetAdd(set, Head(xs)), Tail(xs))

----------------------------------------------------------------------------
(* Collaborators: schema, naming authority, path derivation *)

ObjectTypeNames == <<"User", "Post", "Comment", "Tag">>

(* schemaObject.getType: the schema has the object types, the interface   *)
(* Node implemented by User, Post and Comment, and the interface Empty    *)
(* that nothing implements.                                               *)
getType(typeName) ==
  IF typeName \in Range(ObjectTypeNames) \cup {"Node", "Empty"} THEN typeName ELSE Null

(* getPossibleTypes(schema, type).map(t => t.name) *)
getPossibleTypes(schemaType) ==
  IF schemaType \in Range(ObjectTypeNames) THEN <<schemaType>>
  ELSE IF schemaType = "Node" THEN <<"User", "Post", "Comment">>
  ELSE <<>>

(* The naming convention (pascal case) on the fragment names of the model *)
Convention(name) == IF name = "f" THEN "F" ELSE name

(* baseVisitor.getFragmentSuffix, with omitOperationSuffix and            *)
(* dedupeOperationSuffix at their default false                           *)
getFragmentSuffix(name) == "Fragment"

(* baseVisitor.getFragmentVariableName, with fragmentVariablePrefix ''    *)
(* and fragmentVariableSuffix 'FragmentDoc'                               *)
getFragmentVariableName(name) == Convention(name) \o "FragmentDoc"

(* baseVisitor.convertName(name, {useTypesPrefix: true, suffix}), with an *)
(* empty typesPrefix                                                      *)
convertName(name, suffix) == Convention(name) \o suffix

(* The locations the documents of a run are loaded from, in order: files  *)
(* with the extension .graphql, and files named by a number               *)
LocationLists ==
  { <<"A.graphql", "B.graphql", "C.graphql", "D.graphql">>,
    <<"A.graphql", "7", "2", "D.graphql">> }

(* generateFilePath(location): the extension .graphql replaced by         *)
(* .generated; a location without it is left as it is                     *)
generateFilePath(location) ==
  CASE location = "A.graphql" -> "A.generated"
    [] location = "B.graphql" -> "B.generated"
    [] location = "C.graphql" -> "C.generated"
    [] location = "D.graphql" -> "D.generated"
    [] OTHER -> location

(* generateImportStatement: the statement is identified with the argument *)
(* it is rendered from                                                    *)
generateImportStatement(arg) == arg

baseOutputDir == "out"

----------------------------------------------------------------------------
(* isUsingDocVarPlugin *)

DOC_VAR_PLUGINS == <<"typescript-react-apollo", "typescript-apollo-angular",
                     "typescript-document-nodes", "typescript-generic-sdk",
                     "typescript-graphql-request", "typescript-oclif",
                     "typescript-stencil-apollo", "typescript-urql",
                     "typescript-vue-apollo">>

(* The plugin keys a configuration of the model may name *)
PluginKeys == {"typescript", "typescript-operations", "typescript-react-apollo",
               "TypeScript-Urql", "@graphql-codegen/typescript-oclif",
               "@other/typescript-urql"}

(* String.prototype.toLowerCase on the plugin keys of the model *)
toLowerCase(s) == IF s = "TypeScript-Urql" THEN "typescript-urql" ELSE s

isUsingDocVarPlugin(plugins) ==
  \E i \in 1..Len(plugins) :
    \E j \in 1..Len(DOC_VAR_PLUGINS) :
      LET pluginKey == toLowerCase(plugins[i])
          t == DOC_VAR_PLUGINS[j]
      IN pluginKey = t \/ ("@graphql-codegen/" \o t) = pluginKey

----------------------------------------------------------------------------
(* getAllFragmentSubTypes *)

DocumentModes == {"graphQLTag", "documentNode", "documentNodeImportFragments",
                  "external", "string"}

(* A faulty variant: the single-type branch also qualifies by the type's name *)
getAllFragmentSubTypesQualified(possbileTypes, name, config) ==
  LET hasDocVarPlugin == isUsingDocVarPlugin(config.plugins)
      documentMode == IF config.documentMode = Null THEN "graphQLTag"
                      ELSE config.documentMode
      docVar == IF hasDocVarPlugin /\ documentMode # "documentNode"
                   /\ documentMode # "external"
                THEN <<getFragmentVariableName(name)>> ELSE <<>>
      fragmentSuffix == getFragmentSuffix(name)
  IN docVar \o
     [i \in 1..Len(possbileTypes) |->
        convertName(name, "_" \o possbileTypes[i] \o "_" \o fragmentSuffix)]

(* A faulty variant: the document-variable symbol is never pushed *)
getAllFragmentSubTypesNoDocVar(possbileTypes, name, config) ==
  LET fragmentSuffix == getFragmentSuffix(name)
  IN IF Len(possbileTypes) = 1
     THEN <<convertName(name, fragmentSuffix)>>
     ELSE [i \in 1..Len(possbileTypes) |->
             convertName(name, "_" \o possbileTypes[i] \o "_" \o fragmentSuffix)]

getAllFragmentSubTypes(possbileTypes, name, config) ==
  LET hasDocVarPlugin == isUsingDocVarPlugin(config.plugins)
      documentMode == IF config.documentMode = Null THEN "graphQLTag"
                      ELSE config.documentMode
      subTypes1 == IF hasDocVarPlugin
                   THEN IF documentMode # "documentNode"
                           /\ documentMode # "external"
                           /\ documentMode # "documentNodeImportFragments"
                        THEN <<getFragmentVariableName(name)>>
                        ELSE <<>>
                   ELSE <<>>
      fragmentSuffix == getFragmentSuffix(name)
  IN IF Len(possbileTypes) = 1
     THEN Append(subTypes1, convertName(name, fragmentSuffix))
     ELSE IF Len(possbileTypes) # 0
     THEN subTypes1 \o
          [i \in 1..Len(possbileTypes) |->
             convertName(name, "_" \o possbileTypes[i] \o "_" \o fragmentSuffix)]
     ELSE subTypes1

----------------------------------------------------------------------------
(* Documents *)

Frag(name, onType, body) ==
  [kind |-> "FragmentDefinition", name |-> name, typeCondition |-> onType, body |-> body]

(* The definitions a document of the model may hold: an operation, and    *)
(* fragments F (on the object type User) and f (on the interface Node)    *)
(* with two bodies each, H on a type the schema does not have, and a     *)
(* fragment named like a property of Object.prototype.                    *)
DefPool ==
  { [kind |-> "OperationDefinition", name |-> "Q", typeCondition |-> "Query",
     body |-> "{ user { ...F } }"],
    Frag("F", "User", "{id}"), Frag("F", "User", "{id name}"),
    Frag("f", "Node", "{id}"), Frag("f", "Node", "{id name}"),
    Frag("H", "Missing", "{id}"), Frag("constructor", "User", "{id}") }

(* The definitions of the documents of a run that builds: no two          *)
(* definitions of a name differ and every type condition resolves         *)
RunPool ==
  { [kind |-> "OperationDefinition", name |-> "Q", typeCondition |-> "Query",
     body |-> "{ user { ...F } }"],
    Frag("F", "User", "{id}"), Frag("f", "Node", "{id}") }

(* The definitions `flat` cut into Len(cuts) + 1 documents at `cuts`;     *)
(* document i is loaded from locations[i]                                 *)
SplitAt(flat, cuts, locations) ==
  [i \in 1..(Len(cuts) + 1) |->
     [location |-> locations[i],
      definitions |-> SubSeq(flat,
                             (IF i = 1 THEN 0 ELSE cuts[i - 1]) + 1,
                             IF i = Len(cuts) + 1 THEN Len(flat) ELSE cuts[i])]]

(* The documents arrays: at most MaxDocs documents, each with at least    *)
(* one definition (a GraphQL document has one), that hold together at     *)
(* most MaxDefs definitions of the pool, loaded from the locations of one *)
(* of the lists                                                           *)
DocumentSets(pool, locationLists) ==
  UNION { IF flat = <<>> THEN {<<>>}
          ELSE { SplitAt(flat, cuts, locations) :
                   locations \in locationLists,
                   cuts \in {c \in UNION {[1..(k - 1) -> 1..(Len(flat) - 1)] : k \in 1..MaxDocs} :
                               \A i, j \in 1..Len(c) : i < j => c[i] < c[j]} } :
          flat \in SeqsUpTo(pool, MaxDefs) }

(* The configuration of the registry build: one document-value plugin and *)
(* the default document mode                                              *)
presetConfig ==
  [plugins |-> <<"typescript", "typescript-operations", "typescript-react-apollo">>,
   documentMode |-> Null]

(* The fragment AST node of definition j of document i: the definition    *)
(* and the identity of the object (where it was parsed from)              *)
NodeOf(documentRecord, j) ==
  LET fragments == Filter(documentRecord.definitions, "FragmentDefinition")
  IN [def |-> fragments[j], loc |-> <<documentRecord.location, j>>]

(* The value undefined where a fragment node is read *)
UndefinedNode ==
  [def |-> [kind |-> Null, name |-> Null, typeCondition |-> Null, body |-> Null],
   loc |-> <<Null, 0>>]

(* graphql print(node): the text of the definition, without its location. *)
(* print(undefined) is undefined (visit leaves an undefined root alone),  *)
(* which is the text of no definition.                                    *)
print(node) == <<node.def.name, node.def.typeCondition, node.def.body>>

----------------------------------------------------------------------------
(* The registry: a plain object ({}) keyed by fragment name. The model    *)
(* keeps its own properties in insertion order, which is their key order  *)
(* as a fragment name is a GraphQL name and no integer key; a property    *)
(* set under the key __proto__ is the object's prototype and not an own   *)
(* property.                                                              *)

(* The properties every plain object inherits from Object.prototype *)
ObjectPrototypeKeys ==
  {"constructor", "toString", "toLocaleString", "valueOf", "hasOwnProperty",
   "isPrototypeOf", "propertyIsEnumerable", "__proto__", "__defineGetter__",
   "__defineSetter__", "__lookupGetter__", "__lookupSetter__"}

(* The properties of a registry entry, inherited once an entry is the     *)
(* registry's prototype                                                   *)
EntryKeys == {"filePath", "importNames", "onType", "node"}

HasOwn(reg, name) == \E i \in 1..Len(reg) : reg[i].key = name

(* The truthiness of prev[name] / fragmentRegistry[name]: the property    *)
(* read also finds what the object inherits                               *)
Has(reg, name) ==
  \/ HasOwn(reg, name)
  \/ name \in ObjectPrototypeKeys
  \/ (HasOwn(reg, "__proto__") /\ name \in EntryKeys)

(* What reading filePath, importNames, onType and node gives on a value   *)
(* that is no registry entry: undefined each                              *)
UndefinedDetails ==
  [filePath |-> Null, importNames |-> <<>>, onType |-> Null, node |-> UndefinedNode]

(* prev[name] / fragmentRegistry[name], as the four properties read of it *)
Get(reg, name) ==
  IF HasOwn(reg, name)
  THEN reg[CHOOSE i \in 1..Len(reg) : reg[i].key = name].value
  ELSE UndefinedDetails

(* A faulty variant: an existing entry is kept *)
RegistrySetKeepFirst(reg, name, value) ==
  IF HasOwn(reg, name) THEN reg ELSE Append(reg, [key |-> name, value |-> value])

(* A faulty variant: an existing key is deleted and inserted again at the end *)
RegistrySetReinsert(reg, name, value) ==
  LET kept == SelectSeq(reg, LAMBDA e : e.key # name)
  IN Append(kept, [key |-> name, value |-> value])

(* prev[fragment.name.value] = {...}: assigning an existing key replaces  *)
(* its value and keeps its position                                       *)
RegistrySet(reg, name, value) ==
  IF HasOwn(reg, name)
  THEN [i \in 1..Len(reg) |->
          IF reg[i].key = name THEN [key |-> name, value |-> value] ELSE reg[i]]
  ELSE Append(reg, [key |-> name, value |-> value])

(* A faulty variant: the type condition is never found missing *)
ThrowsUnknownTypeNever(fragment) == FALSE

(* if (!schemaType) throw *)
ThrowsUnknownType(fragment) == getType(fragment.def.typeCondition) = Null

(* prev[name] && print(fragment) !== print(prev[name].node) *)
IsDuplicate(reg, fragment) ==
  Has(reg, fragment.def.name)
  /\ print(fragment) # print(Get(reg, fragment.def.name).node)

(* The entry built for a fragment of a document *)
EntryOf(documentRecord, fragment) ==
  [filePath |-> generateFilePath(documentRecord.location),
   importNames |-> getAllFragmentSubTypes(
                     getPossibleTypes(getType(fragment.def.typeCondition)),
                     fragment.def.name, presetConfig),
   onType |-> fragment.def.typeCondition,
   node |-> fragment]

----------------------------------------------------------------------------
(* resolveFragments *)

HasOwnGroup(imports, path) == \E i \in 1..Len(imports) : imports[i].path = path

(* fragmentFileImports[path] !== undefined, on a plain object *)
HasGroup(imports, path) == HasOwnGroup(imports, path) \/ path \in ObjectPrototypeKeys

(* The else branch throws a TypeError when importNames is undefined       *)
(* (undefined.forEach) and when the group found is an inherited property, *)
(* which has no add                                                       *)
ImportsThrows(imports, level, fragmentDetails, isEntry) ==
  /\ level = 0
  /\ HasGroup(imports, fragmentDetails.filePath)
  /\ \/ ~isEntry
     \/ (~HasOwnGroup(imports, fragmentDetails.filePath)
         /\ fragmentDetails.importNames # <<>>)

(* The array index a property key stands for, or -1: a key that is the    *)
(* canonical decimal form of an integer (here of one digit) is an integer *)
(* key of the object                                                      *)
ArrayIndex(key) ==
  CASE key = "0" -> 0 [] key = "1" -> 1 [] key = "2" -> 2 [] key = "3" -> 3
    [] key = "4" -> 4 [] key = "5" -> 5 [] key = "6" -> 6 [] key = "7" -> 7
    [] key = "8" -> 8 [] key = "9" -> 9 [] OTHER -> -1

(* fragmentFileImports[path] = new Set(...) for a new key, in the order   *)
(* Object.entries (line 203) lists the own keys: integer keys in          *)
(* ascending order first, then the other keys in insertion order          *)
InsertGroup(imports, group) ==
  IF ArrayIndex(group.path) < 0
  THEN Append(imports, group)
  ELSE LET Before(g) == /\ ArrayIndex(g.path) >= 0
                        /\ ArrayIndex(g.path) < ArrayIndex(group.path)
       IN SelectSeq(imports, Before) \o <<group>>
            \o SelectSeq(imports, LAMBDA g : ~Before(g))

(* A faulty variant: references of every level are added to the import object *)
ImportsAfterAnyLevel(imports, level, fragmentDetails) ==
  IF ~HasGroup(imports, fragmentDetails.filePath)
  THEN InsertGroup(imports, [path |-> fragmentDetails.filePath,
                             names |-> SetAddAll(<<>>, fragmentDetails.importNames)])
  ELSE [i \in 1..Len(imports) |->
          IF imports[i].path = fragmentDetails.filePath
          THEN [imports[i] EXCEPT !.names = SetAddAll(@, fragmentDetails.importNames)]
          ELSE imports[i]]

(* if (level === 0) { ... }: fragmentFileImports, an object keyed by file *)
(* path, its groups in own-key order, each value an insertion-ordered Set *)
ImportsAfter(imports, level, fragmentDetails) ==
  IF level = 0
  THEN IF ~HasGroup(imports, fragmentDetails.filePath)
       THEN InsertGroup(imports, [path |-> fragmentDetails.filePath,
                                  names |-> SetAddAll(<<>>, fragmentDetails.importNames)])
       ELSE [i \in 1..Len(imports) |->
               IF imports[i].path = fragmentDetails.filePath
               THEN [imports[i] EXCEPT !.names = SetAddAll(@, fragmentDetails.importNames)]
               ELSE imports[i]]
  ELSE imports

(* A faulty variant: only direct references are pushed *)
ExternalAfterDirectOnly(externalFragments, fragmentName, level, fragmentDetails) ==
  IF level = 0
  THEN Append(externalFragments,
              [level |-> level, isExternal |-> TRUE, name |-> fragmentName,
               onType |-> fragmentDetails.onType, node |-> fragmentDetails.node])
  ELSE externalFragments

(* externalFragments.push({...}) *)
ExternalAfter(externalFragments, fragmentName, level, fragmentDetails) ==
  Append(externalFragments,
         [level |-> level, isExternal |-> TRUE, name |-> fragmentName,
          onType |-> fragmentDetails.onType, node |-> fragmentDetails.node])

(* for (const fragmentName of Object.keys(fragmentsInUse)) { ... }: the   *)
(* depth map is the sequence of its (name, level) pairs in key order      *)
RECURSIVE ResolveLoop(_, _, _, _)
ResolveLoop(fragmentsInUse, reg, externalFragments, fragmentFileImports) ==
  IF fragmentsInUse = <<>>
  THEN [externalFragments |-> externalFragments,
        fragmentFileImports |-> fragmentFileImports,
        error |-> "none"]
  ELSE LET fragmentName == Head(fragmentsInUse).name
           level == Head(fragmentsInUse).level
       IN IF Has(reg, fragmentName)
          THEN LET fragmentDetails == Get(reg, fragmentName)
               IN IF ImportsThrows(fragmentFileImports, level, fragmentDetails,
                                   HasOwn(reg, fragmentName))
                  THEN [externalFragments |-> <<>>, fragmentFileImports |-> <<>>,
                        error |-> "TypeError"]
                  ELSE ResolveLoop(Tail(fragmentsInUse), reg,
                         ExternalAfter(externalFragments, fragmentName, level, fragmentDetails),
                         ImportsAfter(fragmentFileImports, level, fragmentDetails))
          ELSE ResolveLoop(Tail(fragmentsInUse), reg,
                           externalFragments, fragmentFileImports)

(* The value returned, or the error thrown and nothing returned *)
resolveFragments(generatedFilePath, fragmentsInUse, reg) ==
  LET r == ResolveLoop(fragmentsInUse, reg, <<>>, <<>>)
  IN [externalFragments |-> r.externalFragments,
      fragmentImportStatements |->
        [i \in 1..Len(r.fragmentFileImports) |->
           generateImportStatement(
             [baseOutputDir |-> baseOutputDir,
              relativeOutputPath |-> generatedFilePath,
              importSource |-> [path |-> r.fragmentFileImports[i].path,
                                names |-> r.fragmentFileImports[i].names]])],
      error |-> r.error]

(* A faulty variant: the import object holds the registry's importNames arrays    *)
(* themselves, so adding a name to a group adds it to the registry entry  *)
RegistryAfterResolveAliased(reg, fragmentsInUse) ==
  LET r == ResolveLoop(fragmentsInUse, reg, <<>>, <<>>)
      first(path) == CHOOSE k \in 1..Len(fragmentsInUse) :
                       /\ fragmentsInUse[k].level = 0
                       /\ HasOwn(reg, fragmentsInUse[k].name)
                       /\ Get(reg, fragmentsInUse[k].name).filePath = path
                       /\ \A m \in 1..(k-1) :
                            ~(/\ fragmentsInUse[m].level = 0
                              /\ HasOwn(reg, fragmentsInUse[m].name)
                              /\ Get(reg, fragmentsInUse[m].name).filePath = path)
  IN [i \in 1..Len(reg) |->
        IF \E g \in 1..Len(r.fragmentFileImports) :
             /\ r.fragmentFileImports[g].path = reg[i].value.filePath
             /\ fragmentsInUse[first(reg[i].value.filePath)].name = reg[i].key
        THEN LET g == CHOOSE g \in 1..Len(r.fragmentFileImports) :
                        r.fragmentFileImports[g].path = reg[i].value.filePath
             IN [reg[i] EXCEPT !.value.importNames = r.fragmentFileImports[g].names]
        ELSE reg[i]]

(* The registry after a resolveFragments call: the call copies the        *)
(* importNames into a new Set and writes to nothing but its locals        *)
RegistryAfterResolve(reg, fragmentsInUse) == reg

(* The keys of the depth maps of the usage resolver                       *)
(* (extractExternalFragmentsInUse): names of fragments that output        *)
(* documents spread. A key whose fragment no document of the run defines  *)
(* is the absent name of the planner's contract.                          *)
RefNames == {"F", "f"}

(* The depth maps the usage resolver returns: a mapping from fragment     *)
(* name to depth in discovery order; an object has each key once          *)
DepthMaps ==
  {m \in SeqsUpTo([name : RefNames, level : 0..MaxLevel], Cardinality(RefNames)) :
     \A i, j \in 1..Len(m) : i # j => m[i].name # m[j].name}

OutPaths == {"B.generated", "C.generated"}

----------------------------------------------------------------------------
(* The run: buildFragmentResolver makes the registry, then the returned   *)
(* resolveFragments is called for output files                            *)

NoError == [kind |-> "none"]
NoCall == [generatedFilePath |-> Null, fragmentsInUse |-> <<>>]
NoResult == [externalFragments |-> <<>>, fragmentImportStatements |-> <<>>,
             error |-> "none"]
NoArgs == [possbileTypes |-> <<>>, name |-> Null,
           config |-> [plugins |-> <<>>, documentMode |-> Null]]

InitWith(documentSets) ==
  /\ documents \in documentSets
  /\ pc = "scan"
  /\ di = 1
  /\ fi = 1
  /\ registry = <<>>
  /\ duplicateFragmentNames = <<>>
  /\ error = NoError
  /\ processed = 0
  /\ calls = 0
  /\ lastCall = NoCall
  /\ lastResult = NoResult
  /\ snArgs = NoArgs
  /\ snResult = <<>>

(* A.graphql with fragment F and B.graphql with a query that spreads it *)
ScenarioDocuments ==
  << [location |-> "A.graphql", definitions |-> <<Frag("F", "User", "{id}")>>],
     [location |-> "B.graphql",
      definitions |-> << [kind |-> "OperationDefinition", name |-> "Q",
                          typeCondition |-> "Query", body |-> "{ user { ...F } }"] >>] >>

(* A run over documents that build; the scenario is one of them *)
Init == InitWith(DocumentSets(RunPool, LocationLists))

(* A build over any documents *)
InitBuild == InitWith(DocumentSets(DefPool, LocationLists))

FragmentsOf(documentRecord) == Filter(documentRecord.definitions, "FragmentDefinition")

(* One iteration of `for (const fragment of fragments)` *)
ScanFragment ==
  /\ pc = "scan"
  /\ di <= Len(documents)
  /\ fi <= Len(FragmentsOf(documents[di]))
  /\ LET documentRecord == documents[di]
         fragment == NodeOf(documentRecord, fi)
     IN IF ThrowsUnknownType(fragment)
        THEN /\ pc' = "failed"
             /\ error' = [kind |-> "UnknownFragmentType",
                          fragment |-> fragment.def.name,
                          type |-> fragment.def.typeCondition]
             /\ UNCHANGED <<fi, registry, duplicateFragmentNames, processed>>
        ELSE /\ duplicateFragmentNames' =
                  IF IsDuplicate(registry, fragment)
                  THEN Append(duplicateFragmentNames, fragment.def.name)
                  ELSE duplicateFragmentNames
             /\ registry' = RegistrySet(registry, fragment.def.name,
                                        EntryOf(documentRecord, fragment))
             /\ fi' = fi + 1
             /\ processed' = processed + 1
             /\ UNCHANGED <<pc, error>>
  /\ UNCHANGED <<documents, di, calls, lastCall, lastResult, snArgs, snResult>>

(* The reduce callback returns prev: on to the next document *)
NextDocument ==
  /\ pc = "scan"
  /\ di <= Len(documents)
  /\ fi > Len(FragmentsOf(documents[di]))
  /\ di' = di + 1
  /\ fi' = 1
  /\ UNCHANGED <<documents, pc, registry, duplicateFragmentNames, error, processed,
                 calls, lastCall, lastResult, snArgs, snResult>>

(* After the reduce: throw the duplicate error or return the registry *)
FinishBuild ==
  /\ pc = "scan"
  /\ di > Len(documents)
  /\ IF Len(duplicateFragmentNames) # 0
     THEN /\ pc' = "failed"
          /\ error' = [kind |-> "DuplicateFragmentDefinition",
                       names |-> duplicateFragmentNames]
     ELSE /\ pc' = "built"
          /\ UNCHANGED error
  /\ UNCHANGED <<documents, di, fi, registry, duplicateFragmentNames, processed,
                 calls, lastCall, lastResult, snArgs, snResult>>

(* A call of the returned closure, for an output file *)
ResolveFragments ==
  /\ pc = "built"
  /\ lastCall = NoCall
  /\ calls < MaxCalls
  /\ \E generatedFilePath \in OutPaths, fragmentsInUse \in DepthMaps :
       /\ lastCall' = [generatedFilePath |-> generatedFilePath,
                       fragmentsInUse |-> fragmentsInUse]
       /\ lastResult' = resolveFragments(generatedFilePath, fragmentsInUse, registry)
       /\ registry' = RegistryAfterResolve(registry, fragmentsInUse)
  /\ calls' = calls + 1
  /\ UNCHANGED <<documents, pc, di, fi, duplicateFragmentNames, error, processed,
                 snArgs, snResult>>

(* The caller has taken the result (or the error) and goes on to the     *)
(* next output file                                                       *)
NextOutputFile ==
  /\ pc = "built"
  /\ lastCall # NoCall
  /\ lastCall' = NoCall
  /\ lastResult' = NoResult
  /\ UNCHANGED <<documents, pc, di, fi, registry, duplicateFragmentNames, error,
                 processed, calls, snArgs, snResult>>

Next == ScanFragment \/ NextDocument \/ FinishBuild \/ ResolveFragments \/ NextOutputFile

Spec == Init /\ [][Next]_vars

NextBuild == ScanFragment \/ NextDocument \/ FinishBuild

SpecBuild == InitBuild /\ [][NextBuild]_vars

----------------------------------------------------------------------------
(* getAllFragmentSubTypes on its own: every plugin list, document mode    *)
(* and possible-types list of the bounds                                  *)

SubTypeArgs ==
  [possbileTypes : {t \in SeqsUpTo(Range(ObjectTypeNames), MaxTypes) : Distinct(t)},
   name : {"F", "f"},
   config : [plugins : SeqsUpTo(PluginKeys, MaxPlugins),
             documentMode : DocumentModes \cup {Null}]]

InitNames ==
  /\ documents = <<>>
  /\ pc = "names"
  /\ di = 1
  /\ fi = 1
  /\ registry = <<>>
  /\ duplicateFragmentNames = <<>>
  /\ error = NoError
  /\ processed = 0
  /\ calls = 0
  /\ lastCall = NoCall
  /\ lastResult = NoResult
  /\ snArgs \in SubTypeArgs
  /\ snResult = <<>>

ComputeSubTypes ==
  /\ pc = "names"
  /\ snResult' = getAllFragmentSubTypes(snArgs.possbileTypes, snArgs.name, snArgs.config)
  /\ pc' = "namesDone"
  /\ UNCHANGED <<documents, di, fi, registry, duplicateFragmentNames, error,
                 processed, calls, lastCall, lastResult, snArgs>>

NextNames == ComputeSubTypes

SpecNames == InitNames /\ [][NextNames]_vars

----------------------------------------------------------------------------
(* What the properties are stated over *)

(* Every fragment definition of the run, in document order then          *)
(* definition order, with the index of its document                      *)
RECURSIVE FragmentsFrom(_, _)
FragmentsFrom(docs, i) ==
  IF i > Len(docs) THEN <<>>
  ELSE LET n == Len(Filter(docs[i].definitions, "FragmentDefinition"))
       IN (IF n = 0 THEN <<>>
           ELSE [j \in 1..n |-> [node |-> NodeOf(docs[i], j), doc |-> i]])
          \o FragmentsFrom(docs, i + 1)

AllFragments == FragmentsFrom(documents, 1)

DefinedNames == {AllFragments[k].node.def.name : k \in 1..Len(AllFragments)}

IndicesOf(name) == {k \in 1..Len(AllFragments) : AllFragments[k].node.def.name = name}

FirstOf(name) == CHOOSE k \in IndicesOf(name) : \A m \in IndicesOf(name) : k <= m

LastOf(name) == CHOOSE k \in IndicesOf(name) : \A m \in IndicesOf(name) : k >= m

Text(k) == <<AllFragments[k].node.def.name, AllFragments[k].node.def.typeCondition,
             AllFragments[k].node.def.body>>

Unresolved == {k \in 1..Len(AllFragments) :
                 AllFragments[k].node.def.typeCondition
                   \notin {"User", "Post", "Comment", "Tag", "Node", "Empty"}}

FirstUnresolved == CHOOSE k \in Unresolved : \A m \in Unresolved : k <= m

(* The names with two definitions of different text *)
ConflictingNames ==
  {name \in DefinedNames :
     \E k, m \in IndicesOf(name) : Text(k) # Text(m)}

BuildOver == pc \in {"built", "failed"}

(* A sequence without its repetitions, in order of first occurrence *)
RECURSIVE FirstOccurrences(_)
FirstOccurrences(s) ==
  IF s = <<>> THEN <<>>
  ELSE <<Head(s)>> \o FirstOccurrences(SelectSeq(Tail(s), LAMBDA x : x # Head(s)))

RECURSIVE Flatten(_)
Flatten(ss) == IF ss = <<>> THEN <<>> ELSE Head(ss) \o Flatten(Tail(ss))

----------------------------------------------------------------------------
(* C1 as stated: after a build that met identical redefinitions, every    *)
(* entry's filePath and node are those of the first definition of its     *)
(* name.                                                                  *)
C1_KeepsFirstSeen ==
  pc = "built" =>
    \A i \in 1..Len(registry) :
      LET first == AllFragments[FirstOf(registry[i].key)]
      IN /\ registry[i].value.node = first.node
         /\ registry[i].value.filePath = generateFilePath(documents[first.doc].location)

(* The next fragment to scan has the text of the definition registered   *)
(* under its name, which is the latest one scanned                        *)
IdenticalRedefinitionNext ==
  /\ pc = "scan"
  /\ processed < Len(AllFragments)
  /\ LET earlier == {m \in IndicesOf(AllFragments[processed + 1].node.def.name) :
                       m <= processed}
     IN /\ earlier # {}
        /\ \E m \in earlier :
             /\ \A n \in earlier : n <= m
             /\ Text(m) = Text(processed + 1)

(* C1 amended: scanning an identical redefinition records no duplicate    *)
(* and raises no error, and after the build every entry's filePath and    *)
(* node are those of the last definition of its name, for every number of *)
(* identical redefinitions.                                               *)
C1_KeepsLastSeen ==
  [][/\ (IdenticalRedefinitionNext /\ (processed' # processed \/ pc' # pc)) =>
          /\ pc' = "scan"
          /\ processed' = processed + 1
          /\ duplicateFragmentNames' = duplicateFragmentNames
          /\ error' = error
     /\ pc' = "built" =>
          \A i \in 1..Len(registry') :
            LET last == AllFragments[LastOf(registry'[i].key)]
            IN /\ registry'[i].value.node = last.node
               /\ registry'[i].value.filePath =
                    generateFilePath(documents[last.doc].location)]_vars

(* A build that succeeded on a name defined identically in two documents *)
C1_Witness ==
  /\ pc = "built"
  /\ \E name \in DefinedNames :
       AllFragments[FirstOf(name)].doc # AllFragments[LastOf(name)].doc

(* C2: when all type conditions resolve, the build fails with the         *)
(* duplicate error iff some name has two definitions of different text,   *)
(* only after every fragment was scanned, and the error lists exactly the *)
(* conflicting names, each once.                                          *)
C2_DuplicateErrorListsEachNameOnce ==
  (BuildOver /\ Unresolved = {}) =>
    /\ (error.kind = "DuplicateFragmentDefinition") <=> (ConflictingNames # {})
    /\ (pc = "failed") <=> (ConflictingNames # {})
    /\ processed = Len(AllFragments)
    /\ error.kind = "DuplicateFragmentDefinition" =>
         /\ Range(error.names) = ConflictingNames
         /\ Distinct(error.names)

(* C3: a build over documents with an unresolved type condition never     *)
(* processes a fragment after the first such fragment, and ends with the  *)
(* unknown-type error naming that fragment and its type.                  *)
C3_UnknownTypeAbortsAtFirst ==
  (pc \in {"scan", "built", "failed"} /\ Unresolved # {}) =>
    LET first == AllFragments[FirstUnresolved].node.def
    IN /\ processed <= FirstUnresolved - 1
       /\ BuildOver =>
            /\ pc = "failed"
            /\ processed = FirstUnresolved - 1
            /\ error = [kind |-> "UnknownFragmentType", fragment |-> first.name,
                        type |-> first.typeCondition]

(* The unknown-type error raised after a duplicate conflict was recorded *)
C3_Witness ==
  /\ pc = "failed"
  /\ error.kind = "UnknownFragmentType"
  /\ duplicateFragmentNames # <<>>

(* C4: the importNames are the document-variable symbol, present iff a    *)
(* document-value plugin is configured and the mode is not node-based or  *)
(* external, then one unqualified symbol for one possible type, n         *)
(* qualified symbols in enumeration order for n > 1, none for zero.       *)
C4_ImportNamesReference ==
  pc = "namesDone" =>
    LET types == snArgs.possbileTypes
        n == Len(types)
        name == snArgs.name
        mode == snArgs.config.documentMode
        docValue ==
          \E i \in 1..Len(snArgs.config.plugins) :
            toLowerCase(snArgs.config.plugins[i]) \in
              Range(DOC_VAR_PLUGINS)
                \cup {"@graphql-codegen/" \o DOC_VAR_PLUGINS[j] : j \in 1..Len(DOC_VAR_PLUGINS)}
        hasVar == docValue /\ mode \notin {"documentNode", "documentNodeImportFragments", "external"}
        off == IF hasVar THEN 1 ELSE 0
    IN /\ Len(snResult) = off + n
       /\ hasVar => snResult[1] = getFragmentVariableName(name)
       /\ n = 1 => snResult[off + 1] = convertName(name, getFragmentSuffix(name))
       /\ n > 1 => \A i \in 1..n :
            snResult[off + i] =
              convertName(name, "_" \o types[i] \o "_" \o getFragmentSuffix(name))

(* A fragment on three possible types with the document variable *)
C4_Witness ==
  /\ pc = "namesDone"
  /\ Len(snArgs.possbileTypes) = 3
  /\ Len(snResult) = 4
  /\ snArgs.config.documentMode = "string"

----------------------------------------------------------------------------
(* The last resolveFragments call *)

Called == lastCall # NoCall

DepthMap == lastCall.fragmentsInUse

Statements == lastResult.fragmentImportStatements

(* The depth-map pairs whose name the registry has, in depth-map order *)
Registered == SelectSeq(DepthMap, LAMBDA r : \E i \in 1..Len(registry) : registry[i].key = r.name)

EntryFor(name) == registry[CHOOSE i \in 1..Len(registry) : registry[i].key = name].value

(* C5: every import statement's path is the filePath of a registered      *)
(* depth-0 fragment and every name in it is an importName of such a       *)
(* fragment of that file; registered fragments of depth >= 1 are in       *)
(* externalFragments all the same.                                        *)
C5_OnlyDirectReferencesImport ==
  Called =>
    LET Direct == {k \in 1..Len(Registered) : Registered[k].level = 0}
    IN /\ \A i \in 1..Len(Statements) :
            /\ \E k \in Direct :
                 EntryFor(Registered[k].name).filePath = Statements[i].importSource.path
            /\ \A x \in Range(Statements[i].importSource.names) :
                 \E k \in Direct :
                   /\ EntryFor(Registered[k].name).filePath = Statements[i].importSource.path
                   /\ x \in Range(EntryFor(Registered[k].name).importNames)
       /\ \A k \in 1..Len(Registered) :
            Registered[k].level >= 1 =>
              \E e \in Range(lastResult.externalFragments) :
                e.name = Registered[k].name /\ e.level = Registered[k].level

(* A transitive fragment of one file next to a direct fragment of another *)
C5_Witness ==
  /\ Called
  /\ Len(Registered) = 2
  /\ Registered[1].level = 0
  /\ Registered[2].level >= 1
  /\ EntryFor(Registered[1].name).filePath # EntryFor(Registered[2].name).filePath
  /\ Len(Statements) = 1
  /\ Len(lastResult.externalFragments) = 2

(* C6: when every depth is 0, there is one generator call per distinct    *)
(* filePath of the registered references, in order of first discovery,    *)
(* and its names are the importNames of the references of that file, in   *)
(* first-insertion order and each once; every reference's symbols are in  *)
(* the one group of its file.                                             *)
C6_OneGroupPerFile ==
  (Called /\ \A k \in 1..Len(DepthMap) : DepthMap[k].level = 0) =>
    LET paths == FirstOccurrences(
                   [k \in 1..Len(Registered) |-> EntryFor(Registered[k].name).filePath])
        namesOf(path) ==
          FirstOccurrences(Flatten(
            [k \in 1..Len(Registered) |->
               IF EntryFor(Registered[k].name).filePath = path
               THEN EntryFor(Registered[k].name).importNames ELSE <<>>]))
    IN /\ Len(Statements) = Len(paths)
       /\ \A i \in 1..Len(Statements) :
            Statements[i] =
              [baseOutputDir |-> baseOutputDir,
               relativeOutputPath |-> lastCall.generatedFilePath,
               importSource |-> [path |-> paths[i], names |-> namesOf(paths[i])]]
       /\ \A k \in 1..Len(Registered) :
            LET entry == EntryFor(Registered[k].name)
                groups == {i \in 1..Len(Statements) :
                             Statements[i].importSource.path = entry.filePath}
            IN /\ Cardinality(groups) = 1
               /\ \A i \in groups :
                    Range(entry.importNames) \subseteq Range(Statements[i].importSource.names)

(* C7: externalFragments is the depth map restricted to the registered    *)
(* names, in depth-map order, each with its depth and the entry's onType  *)
(* and node; absent names are skipped.                                    *)
C7_ExternalFragmentsFollowDepthMap ==
  Called =>
    /\ lastResult.error = "none"
    /\ lastResult.externalFragments =
      [k \in 1..Len(Registered) |->
         [level |-> Registered[k].level, isExternal |-> TRUE,
          name |-> Registered[k].name,
          onType |-> EntryFor(Registered[k].name).onType,
          node |-> EntryFor(Registered[k].name).node]]

(* An absent name followed by a registered transitive one *)
C7_Witness ==
  /\ Called
  /\ Len(DepthMap) = 2
  /\ Len(Registered) = 1
  /\ Registered[1] = DepthMap[2]
  /\ Registered[1].level >= 1
  /\ lastResult.error = "none"
  /\ Len(lastResult.externalFragments) = 1

ScenarioCall ==
  [generatedFilePath |-> "B.generated",
   fragmentsInUse |-> << [name |-> "F", level |-> 0] >>]

ScenarioHolds(importNames) ==
  (documents = ScenarioDocuments /\ pc = "built") =>
    /\ Len(registry) = 1
    /\ registry[1].key = "F"
    /\ registry[1].value.filePath = "A.generated"
    /\ registry[1].value.importNames = importNames
    /\ registry[1].value.onType = "User"
    /\ lastCall = ScenarioCall =>
         /\ lastResult.error = "none"
         /\ Len(lastResult.externalFragments) = 1
         /\ lastResult.externalFragments[1].name = "F"
         /\ lastResult.externalFragments[1].level = 0
         /\ lastResult.externalFragments[1].onType = "User"
         /\ Len(Statements) = 1
         /\ Statements[1].importSource.path = "A.generated"
         /\ Statements[1].importSource.names = importNames

(* C8 as stated: in the scenario of A.graphql and B.graphql the entry of  *)
(* F has importNames [FFragmentDoc] and the one import statement of       *)
(* B.generated has the symbol list [FFragmentDoc].                        *)
C8_ScenarioAsStated == ScenarioHolds(<<"FFragmentDoc">>)

(* C8 amended: with a document-value plugin and the default document      *)
(* mode, the importNames and the symbol list of the one import statement  *)
(* are [FFragmentDoc, FFragment].                                         *)
C8_ScenarioAmended == ScenarioHolds(<<"FFragmentDoc", "FFragment">>)

(* B.generated planned in the scenario *)
C8_Witness ==
  /\ documents = ScenarioDocuments
  /\ pc = "built"
  /\ lastCall = ScenarioCall
  /\ Len(Statements) = 1

(* C9: after a successful build the registry's keys, in iteration order,  *)
(* are the fragment names in order of first encounter.                    *)
C9_KeysInFirstEncounterOrder ==
  pc = "built" =>
    [i \in 1..Len(registry) |-> registry[i].key] =
      FirstOccurrences([k \in 1..Len(AllFragments) |-> AllFragments[k].node.def.name])

(* A name defined again, identically, after another name was registered *)
C9_Witness ==
  /\ pc = "built"
  /\ Len(registry) = 2
  /\ Len(AllFragments) >= 3
  /\ AllFragments[Len(AllFragments)].node.def.name = registry[1].key

(* C10: resolveFragments is called only on a built registry, no call      *)
(* changes the registry or un-builds it, and a call's result is that of   *)
(* its arguments on the registry.                                         *)
C10_RegistryReadOnly ==
  [][/\ pc = "built" => (pc' = "built" /\ registry' = registry)
     /\ calls' > calls =>
          /\ pc = "built"
          /\ lastResult' = resolveFragments(lastCall'.generatedFilePath,
                                            lastCall'.fragmentsInUse, registry)]_vars

(* A second call, on two direct fragments of one file *)
C10_Witness ==
  /\ calls = 2
  /\ Called
  /\ Len(Registered) = 2
  /\ Len(Statements) = 1
  /\ Registered[1].level = 0
  /\ Registered[2].level = 0

====
